---------------------------- MODULE Spec2Model ----------------------------
(***************************************************************************)
(* Model of avito_parser.py: the lazy pagination of get_all_ads/get_pages  *)
(* and the date normalisation of normalize_date.                           *)
(*                                                                         *)
(* Text is a sequence of symbols.  A symbol is a one-character string (a   *)
(* digit, " ", ":", "-", a letter) or one whole Russian word written in    *)
(* Latin letters ("Vchera" for 'Вчера', "Segodnya" for 'Сегодня',          *)
(* "yanvarya" ... "dekabrya" for the month names), and "nbsp" for '\xa0'.  *)
(***************************************************************************)
EXTENDS Integers, Sequences, FiniteSets, TLC

VARIABLES gen,          \* the generator returned by get_all_ads: "none", "created",
                        \* "suspended" (at the yield), "finished", "raised"
          args,         \* the arguments of the call
          search_url,   \* get_all_ads' local search_url (None before it runs)
          page_number,  \* get_pages' local page_number (0: get_pages not started)
          ads,          \* the ads of the current page not yet aggregated
          got,          \* what the caller's last next() received
          log,          \* every observable step so far, in order
          calls,        \* the number of next() calls the caller has made
          now,          \* the clock: datetime.today()
          raw,          \* the input of the date check
          res           \* the result of the date check

vars == <<gen, args, search_url, page_number, ads, got, log, calls, now, raw, res>>

None == "None"

-----------------------------------------------------------------------------
(* Results: a returned value or a raised exception.                        *)

Ok(v) == [ok |-> TRUE, val |-> v, err |-> ""]
Raise(e) == [ok |-> FALSE, val |-> <<>>, err |-> e]

-----------------------------------------------------------------------------
(* Text helpers: str.split(), ' '.join, x in s, str.replace(x, ''),        *)
(* str.strip(), str(int), zero padding.                                    *)

Digit == {"0", "1", "2", "3", "4", "5", "6", "7", "8", "9"}

DigitVal(c) ==
    CASE c = "0" -> 0 [] c = "1" -> 1 [] c = "2" -> 2 [] c = "3" -> 3
      [] c = "4" -> 4 [] c = "5" -> 5 [] c = "6" -> 6 [] c = "7" -> 7
      [] c = "8" -> 8 [] c = "9" -> 9

DigitChar(n) ==
    CASE n = 0 -> "0" [] n = 1 -> "1" [] n = 2 -> "2" [] n = 3 -> "3"
      [] n = 4 -> "4" [] n = 5 -> "5" [] n = 6 -> "6" [] n = 7 -> "7"
      [] n = 8 -> "8" [] n = 9 -> "9"

Space == {" ", "nbsp"}

IsSpace(c) == c \in Space

IsDigits(s) == \A i \in 1..Len(s) : s[i] \in Digit

RECURSIVE NumVal(_)
NumVal(s) ==
    IF s = <<>> THEN 0
    ELSE 10 * NumVal(SubSeq(s, 1, Len(s) - 1)) + DigitVal(s[Len(s)])

RECURSIVE IntStr(_)
IntStr(n) ==
    IF n < 10 THEN <<DigitChar(n)>>
    ELSE Append(IntStr(n \div 10), DigitChar(n % 10))

RECURSIVE ZeroPad(_, _)
ZeroPad(n, width) ==
    IF width <= 1 THEN IntStr(n)
    ELSE LET s == ZeroPad(n, width - 1)
         IN  IF Len(s) < width THEN <<"0">> \o s ELSE s

Contains(s, w) == \E i \in 1..Len(s) : s[i] = w

RemoveAll(s, w) == SelectSeq(s, LAMBDA c : c # w)

RECURSIVE SplitOn(_, _, _)
SplitOn(s, cur, seps) ==
    IF s = <<>> THEN <<cur>>
    ELSE IF Head(s) \in seps THEN <<cur>> \o SplitOn(Tail(s), <<>>, seps)
    ELSE SplitOn(Tail(s), Append(cur, Head(s)), seps)

split(s) == SelectSeq(SplitOn(s, <<>>, Space), LAMBDA t : t # <<>>)

RECURSIVE join(_)
join(ts) ==
    IF ts = <<>> THEN <<>>
    ELSE IF Len(ts) = 1 THEN ts[1]
    ELSE ts[1] \o <<" ">> \o join(Tail(ts))

RECURSIVE lstrip(_)
lstrip(s) == IF s # <<>> /\ IsSpace(Head(s)) THEN lstrip(Tail(s)) ELSE s

RECURSIVE rstrip(_)
rstrip(s) ==
    IF s # <<>> /\ IsSpace(s[Len(s)]) THEN rstrip(SubSeq(s, 1, Len(s) - 1)) ELSE s

strip(s) == rstrip(lstrip(s))

-----------------------------------------------------------------------------
(* datetime: the calendar, datetime.strptime, str(datetime), str(date).    *)

IsLeap(y) == (y % 4 = 0 /\ y % 100 # 0) \/ y % 400 = 0

DaysInMonth(y, m) ==
    IF m = 2 THEN (IF IsLeap(y) THEN 29 ELSE 28)
    ELSE IF m \in {4, 6, 9, 11} THEN 30 ELSE 31

\* The year strptime gives a datetime whose format has no %Y.
DefaultYear == 1900

\* One directive of a format against the text it has to match whole:
\* %d is 3[0-1]|[1-2]\d|0[1-9]|[1-9], %m is 1[0-2]|0[1-9]|[1-9], %Y is \d\d\d\d,
\* %H is 2[0-3]|[0-1]\d|\d, %M is [0-5]\d|\d.
FieldOk(dir, t) ==
    /\ t # <<>>
    /\ IsDigits(t)
    /\ CASE dir = "%d" -> Len(t) <= 2 /\ NumVal(t) \in 1..31
         [] dir = "%m" -> Len(t) <= 2 /\ NumVal(t) \in 1..12
         [] dir = "%Y" -> Len(t) = 4
         [] dir = "%H" -> Len(t) <= 2 /\ NumVal(t) \in 0..23
         [] dir = "%M" -> Len(t) <= 2 /\ NumVal(t) \in 0..59

\* The fields of one whitespace-free piece of a format ("%d", or "%H:%M").
Pieces(t) == SplitOn(t, <<>>, {":"})

\* A format is the sequence of its whitespace-separated pieces, each a sequence
\* of directives joined by ':'.
FormatDMYHM == << <<"%d">>, <<"%m">>, <<"%Y">>, <<"%H", "%M">> >>
FormatDMHM == << <<"%d">>, <<"%m">>, <<"%H", "%M">> >>
FormatDMY == << <<"%d">>, <<"%m">>, <<"%Y">> >>

\* datetime(year, month, day, hour, minute): ValueError outside the calendar.
MakeDatetime(y, m, d, H, M) ==
    IF y < 1 \/ d > DaysInMonth(y, m) THEN Raise("ValueError")
    ELSE Ok([year |-> y, month |-> m, day |-> d, hour |-> H, minute |-> M, second |-> 0])

\* datetime.strptime(date, format).  The text must match the format from its
\* first to its last character; white space in the format matches any run of
\* white space; the only leading blank accepted is the one of %d's " [1-9]".
strptime(date, format) ==
    LET toks == split(date)
        startOk == \/ ~IsSpace(date[1])
                   \/ /\ date[1] = " "
                      /\ ~IsSpace(date[2])
                      /\ Len(toks[1]) = 1
                      /\ toks[1][1] # "0"
        shapeOk == /\ Len(toks) = Len(format)
                   /\ \A i \in 1..Len(format) :
                        LET ps == Pieces(toks[i])
                        IN  /\ Len(ps) = Len(format[i])
                            /\ \A j \in 1..Len(ps) : FieldOk(format[i][j], ps[j])
        field(dir, dflt) ==
            LET hit == {<<i, j>> \in (1..Len(format)) \X (1..2) :
                           j <= Len(format[i]) /\ format[i][j] = dir}
            IN  IF hit = {} THEN dflt
                ELSE LET ij == CHOOSE x \in hit : TRUE
                     IN  NumVal(Pieces(toks[ij[1]])[ij[2]])
    IN  IF date = <<>> \/ toks = <<>> THEN Raise("ValueError")
        ELSE IF ~startOk \/ IsSpace(date[Len(date)]) \/ ~shapeOk THEN Raise("ValueError")
        ELSE MakeDatetime(field("%Y", DefaultYear), field("%m", 1), field("%d", 1),
                          field("%H", 0), field("%M", 0))

\* datetime.replace(year=y): ValueError when the day is not in that year.
ReplaceYear(dt, y) ==
    IF dt.day > DaysInMonth(y, dt.month) THEN Raise("ValueError")
    ELSE Ok([dt EXCEPT !.year = y])

\* str(date): YYYY-MM-DD.
StrDate(dt) ==
    ZeroPad(dt.year, 4) \o <<"-">> \o ZeroPad(dt.month, 2) \o <<"-">> \o ZeroPad(dt.day, 2)

\* str(datetime): YYYY-MM-DD HH:MM:SS.
StrDatetime(dt) ==
    StrDate(dt) \o <<" ">> \o ZeroPad(dt.hour, 2) \o <<":">> \o ZeroPad(dt.minute, 2)
                \o <<":">> \o ZeroPad(dt.second, 2)

\* Mutant of DropLast3: the seconds are kept.
DropNothing(s) == s

\* s[:-3]
DropLast3(s) == SubSeq(s, 1, Len(s) - 3)

-----------------------------------------------------------------------------
(* The date normalisation.                                                 *)

Vchera == "Vchera"        \* 'Вчера', yesterday
Segodnya == "Segodnya"    \* 'Сегодня', today

get_current_day == now.day

get_current_month == ZeroPad(now.month, 2)

get_current_year == now.year

MonthNames == <<"yanvarya", "fevralya", "marta", "aprelya", "maya", "iyunya",
                "iyulya", "avgusta", "sentyabrya", "oktyabrya", "noyabrya", "dekabrya">>

\* The dict months: month name -> number text.
months == [w \in {MonthNames[i] : i \in 1..12} |->
              IntStr(CHOOSE i \in 1..12 : MonthNames[i] = w)]

replace_month_name_with_number(date) ==
    LET date_splitted == split(date)
    IN  IF Len(date_splitted) < 2 THEN Raise("IndexError")
        ELSE IF ~(Len(date_splitted[2]) = 1 /\ date_splitted[2][1] \in DOMAIN months)
             THEN Raise("KeyError")
        ELSE Ok(join([date_splitted EXCEPT ![2] = months[date_splitted[2][1]]]))

replace_relative_day_with_absolute(date, relative_day, absolute_day) ==
    IntStr(absolute_day) \o <<" ">> \o get_current_month \o <<" ">>
        \o IntStr(get_current_year) \o RemoveAll(date, relative_day)

\* Mutant of convert_relative_date_to_absolute: "yesterday" resolved to the
\* current day.
convert_relative_same_day(date) ==
    IF Contains(date, Vchera)
    THEN replace_relative_day_with_absolute(date, Vchera, get_current_day)
    ELSE replace_relative_day_with_absolute(date, Segodnya, get_current_day)

convert_relative_date_to_absolute(date) ==
    LET current_day == get_current_day
    IN  IF Contains(date, Vchera)
        THEN replace_relative_day_with_absolute(date, Vchera, current_day - 1)
        ELSE replace_relative_day_with_absolute(date, Segodnya, current_day)

normalize_date(date) ==
    IF Contains(date, Vchera) \/ Contains(date, Segodnya)
    THEN LET dt == strptime(convert_relative_date_to_absolute(date), FormatDMYHM)
         IN  IF dt.ok THEN Ok(DropLast3(StrDatetime(dt.val))) ELSE dt
    ELSE LET named == replace_month_name_with_number(date)
         IN  IF ~named.ok THEN named
             ELSE IF Contains(named.val, ":")
             THEN LET dt == strptime(named.val, FormatDMHM)
                      at == IF dt.ok THEN ReplaceYear(dt.val, get_current_year) ELSE dt
                  IN  IF at.ok THEN Ok(DropLast3(StrDatetime(at.val))) ELSE at
             ELSE LET dt == strptime(named.val, FormatDMY)
                  IN  IF dt.ok THEN Ok(StrDate(dt.val)) ELSE dt

-----------------------------------------------------------------------------
(* The fields of one ad.  An ad node is                                    *)
(*   [a     : the <a itemprop="url"> node: present, text (contents[0]), href,*)
(*    price : the <span class="snippet-price"> node: present, text,         *)
(*    date  : the <div class="snippet-date-info"> node: present, tooltip    *)
(*            (data-tooltip), text (contents[0])].                          *)
(* x.find(...) of an absent node is None, and using None raises.           *)

base_url == <<"https://www.avito.ru">>

get_title(ad) ==
    IF ~ad.a.present THEN Raise("AttributeError") ELSE Ok(strip(ad.a.text))

get_link(ad) ==
    IF ~ad.a.present THEN Raise("TypeError") ELSE Ok(base_url \o ad.a.href)

\* int(re.sub('[^\d]', '', price_str)), None when no digit is left.
get_price(ad) ==
    IF ~ad.price.present THEN Raise("AttributeError")
    ELSE LET price_str == SelectSeq(ad.price.text, LAMBDA c : c \in Digit)
         IN  IF price_str = <<>> THEN Ok([none |-> TRUE, n |-> 0])
             ELSE Ok([none |-> FALSE, n |-> NumVal(price_str)])

get_date(ad) ==
    IF ~ad.date.present THEN Raise("AttributeError")
    ELSE LET date == IF strip(ad.date.tooltip) # <<>> THEN ad.date.tooltip
                     ELSE ad.date.text
         IN  Ok([i \in 1..Len(strip(date)) |->
                    IF strip(date)[i] = "nbsp" THEN " " ELSE strip(date)[i]])

agregate_ad_info(ad) ==
    LET title == get_title(ad)
        link == get_link(ad)
        price == get_price(ad)
        date == get_date(ad)
        norm == IF date.ok THEN normalize_date(date.val) ELSE date
    IN  IF ~title.ok THEN title
        ELSE IF ~link.ok THEN link
        ELSE IF ~price.ok THEN price
        ELSE IF ~norm.ok THEN norm
        ELSE Ok([Title |-> title.val, Link |-> link.val,
                 Price |-> price.val, Date |-> norm.val])

-----------------------------------------------------------------------------
(* The date check: normalize_date and agregate_ad_info applied to raw date *)
(* texts of every documented shape, and to malformed ones, under several  *)
(* clocks.                                                                 *)

DayTexts == {<<"1">>, <<"5">>, <<"0", "5">>, <<"2", "8">>, <<"2", "9">>, <<"3", "0">>,
             <<"3", "1">>, <<"0">>, <<"3", "2">>}

MonthWords == {MonthNames[i] : i \in 1..12} \cup {"martobrya", "3"}

TimeTexts == {<<"9", ":", "4", "1">>, <<"0", "9", ":", "4", "1">>,
              <<"1", "5", ":", "2", "9">>, <<"2", "3", ":", "5", "9">>,
              <<"2", "4", ":", "0", "0">>, <<"9", ":", "6", "0">>}

YearTexts == {<<"2", "0", "1", "9">>, <<"2", "0", "2", "0">>, <<"1", "9">>}

Blanks == {<<" ">>, <<" ", " ">>}

\* "D <month> H:MM"
ShapeDayMonthTime == {d \o <<" ", w, " ">> \o t :
                        d \in DayTexts, w \in MonthWords, t \in TimeTexts}

\* "D <month> YYYY"
ShapeDayMonthYear == {d \o <<" ", w, " ">> \o y :
                        d \in DayTexts, w \in MonthWords, y \in YearTexts}

\* "Vchera HH:MM", "Segodnya HH:MM"
ShapeRelative == {<<k>> \o b \o t : k \in {Vchera, Segodnya}, b \in Blanks, t \in TimeTexts}

ShapeOther == {<<>>, <<"5">>, <<"5", " ", "marta">>, <<Vchera>>,
               <<Vchera, "1", "5", ":", "2", "9">>,
               <<Vchera, " ", Segodnya, " ", "1", "5", ":", "2", "9">>,
               <<"1", "5", ":", "2", "9", " ", Segodnya>>,
               <<"5", " ", "marta", " ", "2", "0", "1", "9", " ", "1", "0", ":", "0", "0">>,
               <<"5", " ", " ", "marta", " ", "9", ":", "4", "1">>,
               <<"5", " ", "marta", " ", "9", ":", "4", "1", " ">>,
               <<" ", "5", " ", "marta", " ", "2", "0", "1", "9">>,
               <<"5", "nbsp", "marta", " ", "2", "0", "1", "9">>,
               <<"5", " ", "marta", " ", "0", "0", "0", "0">>,
               <<"5", " ", "marta", " ", "0", "9", "9", "9">>,
               <<"5", " ", "marta", " ", "9", ":", "4", ":", "1">>,
               <<"1", "0", ":", "0", "0", " ", "marta", " ", "5">>}

RawDates == ShapeDayMonthTime \cup ShapeDayMonthYear \cup ShapeRelative \cup ShapeOther

Nows == {[year |-> 2019, month |-> 1, day |-> 11],
         [year |-> 2019, month |-> 3, day |-> 1],
         [year |-> 2019, month |-> 3, day |-> 5],
         [year |-> 2019, month |-> 12, day |-> 31],
         [year |-> 2020, month |-> 1, day |-> 1],
         [year |-> 2020, month |-> 2, day |-> 29]}

NoRes == [op |-> "none"]

\* An ad whose date node carries the text `date` in its tooltip.
AdWithDate(date) ==
    [a |-> [present |-> TRUE, text |-> <<" ", "a", "d">>, href |-> <<"/", "a", "d">>],
     price |-> [present |-> TRUE, text |-> <<"1", " ", "2", "0", "0", " ", "r">>],
     date |-> [present |-> TRUE, tooltip |-> date, text |-> <<>>]]

PagIdle ==
    /\ gen = "none" /\ args = None /\ search_url = None /\ page_number = 0
    /\ ads = <<>> /\ got = NoRes /\ log = <<>> /\ calls = 0

InitDate ==
    /\ PagIdle
    /\ now \in Nows
    /\ raw \in RawDates
    /\ res = NoRes

Normalize ==
    /\ res = NoRes
    /\ res' = [op |-> "normalize_date", out |-> normalize_date(raw)]
    /\ UNCHANGED <<gen, args, search_url, page_number, ads, got, log, calls, now, raw>>

Aggregate ==
    /\ res = NoRes
    /\ res' = [op |-> "agregate_ad_info", out |-> agregate_ad_info(AdWithDate(raw))]
    /\ UNCHANGED <<gen, args, search_url, page_number, ads, got, log, calls, now, raw>>

NextDate == Normalize \/ Aggregate

SpecDate == InitDate /\ [][NextDate]_vars

-----------------------------------------------------------------------------
(* The search URL.                                                         *)

\* urllib.parse.quote: letters, digits and _.-~/ stay, the rest is percent-encoded.
quote(query) ==
    LET enc(c) == CASE c = " " -> <<"%", "2", "0">>
                    [] c = "&" -> <<"%", "2", "6">>
                    [] c = "{" -> <<"%", "7", "B">>
                    [] c = "}" -> <<"%", "7", "D">>
                    [] OTHER -> <<c>>
        F[i \in 0..Len(query)] == IF i = 0 THEN <<>> ELSE F[i - 1] \o enc(query[i])
    IN  F[Len(query)]

sort_values == [k \in {"date", "price", "price_desc", None} |->
                   CASE k = "date" -> <<"1", "0", "4">>
                     [] k = "price" -> <<"1">>
                     [] k = "price_desc" -> <<"2">>
                     [] k = None -> <<"1", "0", "1">>]

owners == [k \in {"private", "company", None} |->
              CASE k = "private" -> <<"1">>
                [] k = "company" -> <<"2">>
                [] k = None -> <<"0">>]

\* int(b) as text
BoolDigit(b) == IF b THEN <<"1">> ELSE <<"0">>

\* Mutant of generate_search_url: the owner is not checked, an unknown one
\* counts as no owner.
generate_search_url_owner_unchecked(query, sort_by, by_title, with_images, owner) ==
    IF sort_by \notin DOMAIN sort_values THEN Raise("ValueError")
    ELSE Ok(<<"https://www.avito.ru/moskva?s=">> \o sort_values[sort_by]
            \o <<"&bt=">> \o BoolDigit(by_title)
            \o <<"&q=">> \o quote(query)
            \o <<"&i=">> \o BoolDigit(with_images)
            \o <<"&user=">> \o (IF owner \in DOMAIN owners THEN owners[owner] ELSE <<"0">>)
            \o <<"&p=", "{}">>)

\* The template ends with '&p={}'; "{}" is the page-number placeholder.
generate_search_url(query, sort_by, by_title, with_images, owner) ==
    IF sort_by \notin DOMAIN sort_values THEN Raise("ValueError")
    ELSE IF owner \notin DOMAIN owners THEN Raise("ValueError")
    ELSE Ok(<<"https://www.avito.ru/moskva?s=">> \o sort_values[sort_by]
            \o <<"&bt=">> \o BoolDigit(by_title)
            \o <<"&q=">> \o quote(query)
            \o <<"&i=">> \o BoolDigit(with_images)
            \o <<"&user=">> \o owners[owner]
            \o <<"&p=", "{}">>)

\* search_url.format(page_number)
format(url, n) ==
    LET F[i \in 0..Len(url)] ==
            IF i = 0 THEN <<>>
            ELSE F[i - 1] \o (IF url[i] = "{}" THEN IntStr(n) ELSE <<url[i]>>)
    IN  F[Len(url)]

-----------------------------------------------------------------------------
(* The site.  A page is [marker: it holds the "nothing found" div,         *)
(* header: it holds the extra-block__header div, items: the ad nodes before *)
(* the header (all of them without a header), after: the ad nodes after    *)
(* the header].  A response is [url: the final URL, text: the page].       *)

MaxAds == 2      \* ad nodes of one page before its header
MaxCalls == 5    \* next() calls of the caller

BlockedUrl == <<"https://www.avito.ru/blocked">>

TodayAd == AdWithDate(<<Segodnya, " ", "1", "5", ":", "2", "9">>)

\* No tooltip: the date is the node's text; the price text holds no digit.
FreeAd ==
    [a |-> [present |-> TRUE, text |-> <<"f", "r", "e", "e">>, href |-> <<"/", "f">>],
     price |-> [present |-> TRUE, text |-> <<"B", "e", "s", "p", "l", "a", "t", "n", "o">>],
     date |-> [present |-> TRUE, tooltip |-> <<" ">>,
               text |-> <<" ", "5", "nbsp", "marta", " ", "2", "0", "1", "9", " ">>]]

\* No <a itemprop="url"> node.
NoTitleAd == [TodayAd EXCEPT !.a.present = FALSE]

\* A month name outside the vocabulary.
BadDateAd == AdWithDate(<<"5", " ", "martobrya", " ", "9", ":", "4", "1">>)

AdPool == {TodayAd, FreeAd, NoTitleAd, BadDateAd}

AdSeqs == UNION {[1..n -> AdPool] : n \in 0..MaxAds}

Pages ==
    {[marker |-> m, header |-> FALSE, items |-> it, after |-> <<>>] :
        m \in BOOLEAN, it \in AdSeqs}
    \cup
    {[marker |-> m, header |-> TRUE, items |-> it, after |-> af] :
        m \in BOOLEAN, it \in AdSeqs, af \in {<<>>, <<TodayAd>>}}

BlockPage == [marker |-> FALSE, header |-> FALSE, items |-> <<>>, after |-> <<>>]

\* What requests.get(page_url) can answer.
Responses(page_url) ==
    {[url |-> BlockedUrl, text |-> BlockPage]}
    \cup {[url |-> page_url, text |-> pg] : pg \in Pages}

Reverse(s) == [i \in 1..Len(s) |-> s[Len(s) + 1 - i]]

\* Mutant of fetch_page: the final URL is not looked at.
fetch_page_unchecked(page_url, response) == Ok(response.text)

fetch_page(page_url, response) ==
    IF response.url = BlockedUrl THEN Raise("TooManyRequests") ELSE Ok(response.text)

\* Mutant of is_page_exists: the marker is never found.
is_page_exists_always(page) == TRUE

is_page_exists(page) == ~page.marker

\* find_all_previous lists the nodes before the header, nearest first.
get_ads_from_page(page) ==
    IF page.header THEN Reverse(page.items) ELSE page.items \o page.after

-----------------------------------------------------------------------------
(* The generators get_all_ads and get_pages, one inside the other.         *)

NoPause == [none |-> TRUE, secs |-> 0]
Pause(n) == [none |-> FALSE, secs |-> n]

DefaultArgs ==
    [query |-> <<"a", "u", "d", "i", " ", "t", "t">>, sort_by |-> None,
     by_title |-> FALSE, with_images |-> FALSE, owner |-> None, pause |-> NoPause]

\* The calls the caller makes.
CallArgs ==
    {DefaultArgs,
     [DefaultArgs EXCEPT !.sort_by = "date", !.by_title = TRUE, !.owner = "private",
                         !.pause = Pause(0)],
     [DefaultArgs EXCEPT !.sort_by = "price_desc", !.with_images = TRUE,
                         !.owner = "company", !.pause = Pause(2)],
     [DefaultArgs EXCEPT !.sort_by = "name"],
     [DefaultArgs EXCEPT !.sort_by = "price", !.owner = "agency", !.pause = Pause(2)]}

Yielded(v) == [op |-> "yield", val |-> v]
Raised(e) == [op |-> "raise", err |-> e]
StopIteration == [op |-> "StopIteration"]

\* Mutant of PauseSet: `if pause`, so that a pause of 0 counts as none.
PauseTruthy(pause) == ~pause.none /\ pause.secs # 0

\* `if pause is not None`
PauseSet(pause) == ~pause.none

\* Mutant of NotAds: the break is missing.
NeverBreaks(found) == FALSE

\* `if not ads`
NotAds(found) == found = <<>>

\* get_pages resumed after its yield: the next page number, the pause, and
\* the request of that page is under way.
ResumeGetPages(pn, lg) ==
    [gen |-> "fetching", page_number |-> pn + 1, ads |-> <<>>, got |-> NoRes,
     log |-> IF PauseSet(args.pause)
             THEN Append(lg, [ev |-> "sleep", secs |-> args.pause.secs, p |-> pn])
             ELSE lg]

\* Mutant of Exhausted: the loop leaves one ad too early.
ExhaustedEarly(rest) == Len(rest) <= 1

\* `for ad in ads`: the loop is over when no ad is left to visit.
Exhausted(rest) == rest = <<>>

\* Mutant of ForAd: an ad whose aggregation fails is skipped.
RECURSIVE ForAdSkipping(_, _, _)
ForAdSkipping(pn, rest, lg) ==
    IF Exhausted(rest) THEN ResumeGetPages(pn, lg)
    ELSE LET r == agregate_ad_info(Head(rest))
             lg2 == Append(lg, [ev |-> "agregate_ad_info", p |-> pn, ok |-> r.ok])
         IN  IF r.ok
             THEN [gen |-> "suspended", page_number |-> pn, ads |-> Tail(rest),
                   got |-> Yielded(r.val), log |-> Append(lg2, [ev |-> "yield", p |-> pn])]
             ELSE ForAdSkipping(pn, Tail(rest), lg2)

\* `for ad in ads: yield agregate_ad_info(ad)`, with rest the ads still to visit.
ForAd(pn, rest, lg) ==
    IF Exhausted(rest) THEN ResumeGetPages(pn, lg)
    ELSE LET r == agregate_ad_info(Head(rest))
             lg2 == Append(lg, [ev |-> "agregate_ad_info", p |-> pn, ok |-> r.ok])
         IN  IF r.ok
             THEN [gen |-> "suspended", page_number |-> pn, ads |-> Tail(rest),
                   got |-> Yielded(r.val), log |-> Append(lg2, [ev |-> "yield", p |-> pn])]
             ELSE [gen |-> "raised", page_number |-> pn, ads |-> <<>>,
                   got |-> Raised(r.err), log |-> Append(lg2, [ev |-> "raise", p |-> pn])]

\* From the answer of the request of page pn to the next yield, return or raise.
AfterFetch(pn, response, lg) ==
    LET page == fetch_page(format(search_url, pn), response)
        lg1 == Append(lg, [ev |-> "fetch", p |-> pn,
                           blocked |-> response.url = BlockedUrl,
                           marker |-> response.text.marker])
    IN  IF ~page.ok
        THEN [gen |-> "raised", page_number |-> pn, ads |-> <<>>,
              got |-> Raised(page.err), log |-> Append(lg1, [ev |-> "raise", p |-> pn])]
        ELSE IF ~is_page_exists(page.val)
        THEN [gen |-> "finished", page_number |-> pn, ads |-> <<>>,
              got |-> StopIteration, log |-> Append(lg1, [ev |-> "stop", p |-> pn])]
        ELSE LET found == get_ads_from_page(page.val)
                 lg2 == lg1 \o <<[ev |-> "page", p |-> pn],
                                 [ev |-> "get_ads_from_page", p |-> pn, n |-> Len(found)]>>
             IN  IF NotAds(found)
                 THEN [gen |-> "finished", page_number |-> pn, ads |-> <<>>,
                       got |-> StopIteration,
                       log |-> Append(lg2, [ev |-> "stop", p |-> pn])]
                 ELSE ForAd(pn, found, lg2)

Set(f) ==
    /\ gen' = f.gen
    /\ page_number' = f.page_number
    /\ ads' = f.ads
    /\ got' = f.got
    /\ log' = f.log

Init ==
    /\ PagIdle
    /\ now = [year |-> 2019, month |-> 3, day |-> 5]
    /\ raw = <<>>
    /\ res = NoRes

\* g = get_all_ads(...): a generator function's call runs none of its body.
Call ==
    /\ gen = "none"
    /\ \E a \in CallArgs : args' = a
    /\ gen' = "created"
    /\ log' = Append(log, [ev |-> "call", p |-> 0])
    /\ UNCHANGED <<search_url, page_number, ads, got, calls, now, raw, res>>

\* The first next(g): the body starts, generate_search_url runs, and get_pages
\* requests page 1.
NextStart ==
    /\ gen = "created"
    /\ calls < MaxCalls
    /\ calls' = calls + 1
    /\ LET url == generate_search_url(args.query, args.sort_by, args.by_title,
                                      args.with_images, args.owner)
           lg == Append(log, [ev |-> "next", p |-> 0])
       IN  IF url.ok
           THEN /\ search_url' = url.val
                /\ Set([gen |-> "fetching", page_number |-> 1, ads |-> <<>>,
                        got |-> NoRes, log |-> lg])
           ELSE /\ search_url' = search_url
                /\ Set([gen |-> "raised", page_number |-> 0, ads |-> <<>>,
                        got |-> Raised(url.err),
                        log |-> Append(lg, [ev |-> "raise", p |-> 0])])
    /\ UNCHANGED <<args, now, raw, res>>

\* requests.get answers, and the body runs on to its next yield, return or raise.
Fetch ==
    /\ gen = "fetching"
    /\ \E response \in Responses(format(search_url, page_number)) :
          Set(AfterFetch(page_number, response, log))
    /\ UNCHANGED <<args, search_url, calls, now, raw, res>>

\* A later next(g): the body resumes after its yield.
NextResume ==
    /\ gen = "suspended"
    /\ calls < MaxCalls
    /\ calls' = calls + 1
    /\ Set(ForAd(page_number, ads, Append(log, [ev |-> "next", p |-> page_number])))
    /\ UNCHANGED <<args, search_url, now, raw, res>>

\* next(g) on a generator that has returned or raised: StopIteration.
NextEnded ==
    /\ gen \in {"finished", "raised"}
    /\ calls < MaxCalls
    /\ calls' = calls + 1
    /\ got' = StopIteration
    /\ log' = log \o <<[ev |-> "next", p |-> page_number], [ev |-> "stop", p |-> page_number]>>
    /\ UNCHANGED <<gen, args, search_url, page_number, ads, now, raw, res>>

Next == Call \/ NextStart \/ Fetch \/ NextResume \/ NextEnded

Spec == Init /\ [][Next]_vars

-----------------------------------------------------------------------------
(* What the claims speak of.                                               *)

\* The places of the log where an event of one kind stands.
Idx(e) == {i \in 1..Len(log) : log[i].ev = e}

\* Only next() calls and StopIteration follow place i of the log.
QuietAfter(i) == \A j \in (i + 1)..Len(log) : log[j].ev \in {"next", "stop"}

\* The requests and the pauses, in order.
FetchesAndSleeps == SelectSeq(log, LAMBDA e : e.ev \in {"fetch", "sleep"})

\* The arguments a call may carry, from the docstring of get_all_ads.
ArgsValid(a) ==
    /\ a.sort_by \in {None, "date", "price", "price_desc"}
    /\ a.owner \in {None, "private", "company"}

IsDateForm(s) ==
    /\ Len(s) >= 10
    /\ \A i \in {1, 2, 3, 4, 6, 7, 9, 10} : s[i] \in Digit
    /\ s[5] = "-" /\ s[8] = "-"

\* "YYYY-MM-DD" or "YYYY-MM-DD HH:MM"
IsCanonical(s) ==
    /\ IsDateForm(s)
    /\ \/ Len(s) = 10
       \/ /\ Len(s) = 16
          /\ s[11] = " " /\ s[14] = ":"
          /\ \A i \in {12, 13, 15, 16} : s[i] \in Digit

\* The text "YYYY-MM-DD HH:MM" of a day and a clock time.
Canon(y, m, d, t) ==
    ZeroPad(y, 4) \o <<"-">> \o ZeroPad(m, 2) \o <<"-">> \o ZeroPad(d, 2) \o <<" ">>
        \o ZeroPad(NumVal(Pieces(t)[1]), 2) \o <<":">> \o ZeroPad(NumVal(Pieces(t)[2]), 2)

\* The clock times H:MM and HH:MM among the inputs.
ClockTimes == {t \in TimeTexts : NumVal(Pieces(t)[1]) <= 23 /\ NumVal(Pieces(t)[2]) <= 59}

\* The day texts that name a day of month i of the current year.
DaysOf(i) == {d \in DayTexts : NumVal(d) \in 1..DaysInMonth(now.year, i)}

Normalized == res.op = "normalize_date"

-----------------------------------------------------------------------------
\* C1: get_pages requests the pages 1, 2, 3, ... in this order; the first page
\* that holds the "nothing found" marker ends the run normally: that page is
\* not yielded, and nothing but StopIteration follows it (no further request).
C1_PagesInOrderUntilMarker ==
    /\ \A i \in Idx("fetch") : log[i].p = Cardinality({j \in Idx("fetch") : j <= i})
    /\ \A i \in Idx("fetch") :
          (log[i].marker /\ ~log[i].blocked) =>
              /\ gen = "finished"
              /\ log[i + 1].ev = "stop"
              /\ QuietAfter(i)
              /\ \A j \in Idx("page") : log[j].p # log[i].p

C1_Witness ==
    /\ gen = "finished"
    /\ \E i \in Idx("fetch") : log[i].p = 3 /\ log[i].marker /\ ~log[i].blocked
    /\ Cardinality(Idx("yield")) >= 2

\* C2: a request whose final URL is the block page raises TooManyRequests
\* before anything is read from that page; the caller gets the error, which is
\* not the normal end, and no page is requested afterwards.
C2_BlockedRaisesAtOnce ==
    \A i \in Idx("fetch") :
        log[i].blocked =>
            /\ gen = "raised"
            /\ log[i + 1].ev = "raise"
            /\ QuietAfter(i + 1)
            /\ (Len(log) = i + 1) =>
                  /\ got.op = "raise"
                  /\ got.err = "TooManyRequests"
                  /\ got # StopIteration

C2_Witness ==
    /\ gen = "raised"
    /\ got.op = "raise"
    /\ got.err = "TooManyRequests"
    /\ page_number = 2
    /\ \E i \in Idx("fetch") : log[i].p = 2 /\ log[i].blocked

\* C3: normalize_date returns "YYYY-MM-DD HH:MM" or "YYYY-MM-DD" or fails, for
\* every raw date and clock, and so the Date of every record agregate_ad_info
\* builds (the records get_all_ads yields) has one of these two forms.
C3_DateIsCanonical ==
    /\ (Normalized /\ res.out.ok) => IsCanonical(res.out.val)
    /\ (res.op = "agregate_ad_info" /\ res.out.ok) => IsCanonical(res.out.val.Date)

C3_Witness ==
    /\ res.op = "agregate_ad_info"
    /\ res.out.ok
    /\ Len(res.out.val.Date) = 16
    /\ Contains(raw, Vchera)

\* C4: get_all_ads is lazy.  The call requests nothing; page N+1 is requested
\* only after every ad of page N was yielded and the caller asked again; and a
\* caller holding its k-th ad has caused no request beyond that ad's page.
C4_Lazy ==
    /\ gen = "created" => Idx("fetch") = {}
    /\ \A i \in Idx("fetch") :
          log[i].p >= 2 =>
              \E g \in Idx("get_ads_from_page") :
                  /\ log[g].p = log[i].p - 1
                  /\ g < i
                  /\ Cardinality({y \in Idx("yield") : y < i /\ log[y].p = log[g].p})
                        = log[g].n
                  /\ \E n \in Idx("next") :
                        /\ n < i
                        /\ \A y \in Idx("yield") : log[y].p = log[g].p => y < n
    /\ gen = "suspended" =>
          \E y \in Idx("yield") :
              /\ \A z \in Idx("yield") : z <= y
              /\ \A i \in Idx("fetch") : log[i].p <= log[y].p

C4_Witness ==
    /\ gen = "suspended"
    /\ page_number = 2
    /\ \E g \in Idx("get_ads_from_page") : log[g].p = 1 /\ log[g].n = 2

\* C5 as claimed: a sort or owner value outside its set makes the call of
\* get_all_ads itself raise, so a generator is only ever created for valid
\* arguments.
C5_RaisedAtCall == gen = "created" => ArgsValid(args)

\* C5 as amended: a sort or owner value outside its set makes the first
\* next() raise ValueError, before any page is requested and before any ad is
\* yielded; the call of get_all_ads itself raises nothing.
C5_RaisedAtFirstNext ==
    (gen # "none" /\ ~ArgsValid(args)) =>
        \/ gen = "created" /\ calls = 0
        \/ /\ gen = "raised"
           /\ Idx("fetch") = {} /\ Idx("yield") = {}
           /\ Len(log) >= 3
           /\ log[1].ev = "call" /\ log[2].ev = "next" /\ log[3].ev = "raise"
           /\ QuietAfter(3)
           /\ calls = 1 => (got.op = "raise" /\ got.err = "ValueError")

C5_Witness ==
    /\ gen = "raised"
    /\ ~ArgsValid(args)
    /\ args.owner = "agency"
    /\ calls = 1
    /\ got.op = "raise"

\* C6 as claimed: for "D <month name> H:MM" with D a day of that month in the
\* current year, normalize_date returns "YYYY-MM-DD HH:MM" with the current
\* year and the same day, month, hour and minute, 29 February of a leap year
\* included.
C6_DayMonthTime ==
    \A i \in 1..12 : \A d \in DaysOf(i) : \A t \in ClockTimes :
        (Normalized /\ raw = d \o <<" ", MonthNames[i], " ">> \o t) =>
            /\ res.out.ok
            /\ res.out.val = Canon(now.year, i, NumVal(d), t)

\* C7 as claimed: for "today"/"yesterday" and a clock time, normalize_date
\* returns the current year and month with the current day, or the current
\* day minus one, whatever the current day is.
C7_RelativeDay ==
    \A k \in {Vchera, Segodnya} : \A b \in Blanks : \A t \in ClockTimes :
        (Normalized /\ raw = <<k>> \o b \o t) =>
            /\ res.out.ok
            /\ res.out.val = Canon(now.year, now.month,
                                   IF k = Vchera THEN now.day - 1 ELSE now.day, t)

\* C7 as amended: the same for "today" on any day and for "yesterday" from the
\* 2nd of a month on; "yesterday" on the 1st of a month makes normalize_date
\* fail with ValueError: it returns neither a day 0 nor a date of the month
\* before.
C7_RelativeDayFrom2nd ==
    \A k \in {Vchera, Segodnya} : \A b \in Blanks : \A t \in ClockTimes :
        (Normalized /\ raw = <<k>> \o b \o t) =>
            IF k = Vchera /\ now.day = 1
            THEN ~res.out.ok /\ res.out.err = "ValueError"
            ELSE /\ res.out.ok
                 /\ res.out.val = Canon(now.year, now.month,
                                        IF k = Vchera THEN now.day - 1 ELSE now.day, t)

C7_Witness ==
    /\ Normalized
    /\ now.day = 1
    /\ raw = <<Vchera, " ", "1", "5", ":", "2", "9">>
    /\ ~res.out.ok

\* C8: when agregate_ad_info fails on an ad, the caller gets that failure at
\* that ad: the ad is not skipped, no later ad is yielded and no page is
\* requested afterwards.
C8_FailFast ==
    \A i \in Idx("agregate_ad_info") :
        ~log[i].ok =>
            /\ gen = "raised"
            /\ log[i + 1].ev = "raise"
            /\ QuietAfter(i + 1)
            /\ (Len(log) = i + 1) => (got.op = "raise" /\ got.err \in {"AttributeError", "KeyError"})

C8_Witness ==
    /\ gen = "raised"
    /\ got = StopIteration
    /\ Idx("yield") # {}
    /\ \E i \in Idx("agregate_ad_info") : ~log[i].ok /\ log[i].p = 2

\* C9: with a pause set there is exactly one wait of that length between two
\* requests in a row, after the yields of the page before, none before the
\* first request and none after the last; with no pause there is no wait.
C9_PauseBetweenFetches ==
    gen # "none" =>
        IF args.pause.none THEN Idx("sleep") = {}
        ELSE /\ \A i \in 1..Len(FetchesAndSleeps) :
                  IF i % 2 = 1 THEN FetchesAndSleeps[i].ev = "fetch"
                  ELSE /\ FetchesAndSleeps[i].ev = "sleep"
                       /\ FetchesAndSleeps[i].secs = args.pause.secs
             /\ (Len(FetchesAndSleeps) > 0 /\ Len(FetchesAndSleeps) % 2 = 0)
                   => gen = "fetching"
             /\ \A i \in Idx("sleep") :
                   \E y \in Idx("yield") : y < i /\ log[y].p = log[i].p

C9_Witness ==
    /\ gen = "suspended"
    /\ ~args.pause.none
    /\ args.pause.secs = 0
    /\ Cardinality(Idx("sleep")) = 2
    /\ Cardinality(Idx("fetch")) = 3

\* C10: the first page that yields no ad node ends get_all_ads normally, with
\* no error and no further request, marker or not; so the requests are at
\* most one more than the pages that gave at least one ad.
C10_EmptyPageEnds ==
    /\ \A i \in Idx("get_ads_from_page") :
          log[i].n = 0 =>
              /\ gen = "finished"
              /\ log[i + 1].ev = "stop"
              /\ QuietAfter(i)
    /\ Cardinality(Idx("fetch"))
          <= 1 + Cardinality({i \in Idx("get_ads_from_page") : log[i].n >= 1})

C10_Witness ==
    /\ gen = "finished"
    /\ \E i \in Idx("get_ads_from_page") : log[i].n = 0 /\ log[i].p = 2
    /\ \E i \in Idx("fetch") : log[i].p = 2 /\ ~log[i].marker /\ ~log[i].blocked

=============================================================================
